---- MODULE Spec2Model ----
(***************************************************************************)
(* W2NER inference driver (infer.py): the Trainer's train / eval / predict *)
(* passes, checkpoint load, the per-file main loop, and the word-pair grid *)
(* codec the passes decode with.                                           *)
(***************************************************************************)
EXTENDS Integers, Sequences, FiniteSets, TLC

\* ---------------------------------------------------------------- bounds
MaxSent == 2        \* sentences in one dataset
MaxBatchSize == 2   \* config.batch_size
MaxEnt == 1         \* entities decoded (or gold) per sentence
NumFiles == 2       \* data files the main loop walks (range(0, 20) in the source)
MaxLen == 4         \* tokens of a sentence handed to the grid codec
MaxSpans == 2       \* spans of a sentence handed to the grid codec
NumTypes == 2       \* entity types of the vocabulary

VARIABLES
    mode,            \* which entry point this run exercises: "main", "eval", "train"
    batch_size,      \* config.batch_size
    ckpt,            \* the file at config.save_path: "absent" or "present"
    mainPc,          \* position of __main__'s loop
    fileIdx,         \* __main__'s loop variable i
    written,         \* indices of the prediction files written so far
    params,          \* model.state_dict(): parameter group -> [src, upd]
    optState,        \* optimizer state: number of AdamW steps applied
    grads,           \* gradient buffers: "none", "accumulated", "clipped"
    data,            \* predict's `data` (ori_data): sequence of [sentence |-> id]
    n_samples,       \* len(dataset) behind data_loader
    pc,              \* position inside the running Trainer method
    i,               \* predict's offset into data
    batchNo,         \* number of batches the loader has delivered
    data_batch,      \* the batch in hand: what the model and decode yield on it
    sentence_batch,  \* predict's data[i:i+batch_size]
    recJ,            \* records of the batch in hand already appended (zip position)
    result,          \* predict's result list
    total_ent,       \* [c, p, r]: total_ent_c, total_ent_p, total_ent_r
    label_result,    \* batches whose labels were appended
    pred_result,     \* batches whose predictions were appended
    loss_list,       \* train's loss_list (its length)
    steps,           \* train: batch number -> steps performed on it, in order
    raised,          \* batches of the running pass on which an exception was raised
    okSum,           \* decode counts summed over batches that ended without raising
    excAt,           \* where the exception that ended the pass or run came from
    codecPc,         \* grid codec: "off", "input", "encoded", "decoded"
    sentLen,         \* grid codec: length L of the sentence
    spans,           \* grid codec: the gold spans, a set of [toks, type]
    grid,            \* grid codec: the L x L label grid
    decoded          \* grid codec: the spans decode returned

vars == <<mode, batch_size, ckpt, mainPc, fileIdx, written, params, optState,
          grads, data, n_samples, pc, i, batchNo, data_batch, sentence_batch,
          recJ, result, total_ent, label_result, pred_result, loss_list, steps,
          raised, okSum, excAt, codecPc, sentLen, spans, grid, decoded>>

\* ---------------------------------------------------------------- helpers
Min(a, b) == IF a < b THEN a ELSE b

RECURSIVE SumSeq(_)
SumSeq(s) == IF s = <<>> THEN 0 ELSE Head(s) + SumSeq(Tail(s))

\* Python's seq[lo:hi] (0-based, end exclusive, clipped to the sequence).
Slice(s, lo, hi) == SubSeq(s, lo + 1, Min(hi, Len(s)))

\* Trainer.__init__: the three optimizer parameter groups.
ParamGroups == {"bert_decay", "bert_no_decay", "other"}

\* Trainer.__init__: the attributes the constructor sets (the scheduler
\* assignment is commented out).
TrainerAttrs == {"model", "criterion", "optimizer"}

\* Model(config): freshly initialised parameters.
FreshParams == [g \in ParamGroups |-> [src |-> "init", upd |-> 0]]

\* torch.load(path): the state dict stored in the checkpoint.
CkptParams == [g \in ParamGroups |-> [src |-> "ckpt", upd |-> 0]]

ZeroEnt == [c |-> 0, p |-> 0, r |-> 0]

AddEnt(t, d) == [c |-> t.c + d.c, p |-> t.p + d.p, r |-> t.r + d.r]

\* DataLoader(dataset, batch_size, shuffle=False, drop_last=False): number of
\* batches, and the size of batch b (1-based).
NumBatches(n, bs) == (n + bs - 1) \div bs

BatchLen(n, bs, b) == Min(bs, n - (b - 1) * bs)

\* The batch of the loader a sentence id (1-based position in data) falls in.
BatchOf(k, bs) == ((k - 1) \div bs) + 1

\* What utils.decode returns on a batch of m sentences: decode_entities as
\* the number of entities decoded per sentence, and the counts ent_c, ent_p,
\* ent_r with ent_p = total decoded and ent_c <= ent_p, ent_c <= ent_r.
BatchOutcomes(m) ==
    { [ents |-> e, c |-> c, p |-> SumSeq(e), r |-> r] :
        e \in [1..m -> 0..MaxEnt], c \in 0..(m * MaxEnt), r \in 0..(m * MaxEnt) }

DecodeOutcomes(m) == { o \in BatchOutcomes(m) : o.c <= o.p /\ o.c <= o.r }

NoBatch == [ents |-> <<>>, c |-> 0, p |-> 0, r |-> 0]

EntOf(db) == [c |-> db.c, p |-> db.p, r |-> db.r]

\* ---------------------------------------------------------------- initial state
Init ==
    /\ mode \in {"main", "eval", "train"}
    /\ batch_size \in 1..MaxBatchSize
    /\ ckpt \in {"absent", "present"}
    /\ mainPc = IF mode = "main" THEN "for" ELSE "n/a"
    /\ fileIdx = 0
    /\ written = {}
    /\ params = FreshParams
    /\ optState = 0
    /\ grads = "none"
    /\ data = <<>>
    /\ n_samples = 0
    /\ pc = "idle"
    /\ i = 0
    /\ batchNo = 0
    /\ data_batch = NoBatch
    /\ sentence_batch = <<>>
    /\ recJ = 0
    /\ result = <<>>
    /\ total_ent = ZeroEnt
    /\ label_result = <<>>
    /\ pred_result = <<>>
    /\ loss_list = 0
    /\ steps = <<>>
    /\ raised = {}
    /\ okSum = ZeroEnt
    /\ excAt = "none"
    /\ codecPc = "off"
    /\ sentLen = 0
    /\ spans = {}
    /\ grid = <<>>
    /\ decoded = {}

passVars == <<i, batchNo, data_batch, sentence_batch, recJ, result, total_ent,
              label_result, pred_result, loss_list, steps, raised, okSum>>

codecVars == <<codecPc, sentLen, spans, grid, decoded>>

envVars == <<mode, batch_size, ckpt, codecVars>>

\* ---------------------------------------------------------------- __main__
\* for i in range(0, 20): load data{i}, drop the empty sentences.
MainFor ==
    /\ mode = "main" /\ mainPc = "for"
    /\ IF fileIdx < NumFiles
       THEN \E n \in 1..MaxSent :
               /\ data' = [k \in 1..n |-> [sentence |-> k]]
               /\ n_samples' = n
               /\ mainPc' = "build"
       ELSE /\ mainPc' = "done"
            /\ UNCHANGED <<data, n_samples>>
    /\ UNCHANGED <<envVars, fileIdx, written, params, optState, grads, pc,
                   passVars, excAt>>

\* model = Model(config); trainer = Trainer(model)
MainBuild ==
    /\ mode = "main" /\ mainPc = "build"
    /\ params' = FreshParams
    /\ optState' = 0
    /\ grads' = "none"
    /\ mainPc' = "load"
    /\ UNCHANGED <<envVars, fileIdx, written, data, n_samples, pc, passVars, excAt>>

\* A mutated load that keeps the freshly built model when the file is absent.
LoadOrFresh ==
    /\ params' = IF ckpt = "present" THEN CkptParams ELSE params
    /\ mainPc' = "predict"
    /\ excAt' = excAt

\* Trainer.load(path): torch.load raises when the path is absent and the
\* exception leaves __main__; otherwise load_state_dict replaces every
\* parameter.
Load ==
    IF ckpt = "present"
    THEN /\ params' = CkptParams
         /\ mainPc' = "predict"
         /\ excAt' = excAt
    ELSE /\ params' = params
         /\ mainPc' = "aborted"
         /\ excAt' = "load"

\* trainer.load(config.save_path)
MainLoad ==
    /\ mode = "main" /\ mainPc = "load"
    /\ Load
    /\ UNCHANGED <<envVars, fileIdx, written, optState, grads, data, n_samples,
                   pc, passVars>>

\* trainer.predict(...) has come back: next file, or the exception leaves
\* __main__.
MainAfterPredict ==
    /\ mode = "main" /\ mainPc = "predict"
    /\ pc \in {"p_returned", "p_raised"}
    /\ IF pc = "p_returned"
       THEN /\ fileIdx' = fileIdx + 1
            /\ mainPc' = "for"
            /\ pc' = "idle"
       ELSE /\ mainPc' = "aborted"
            /\ UNCHANGED <<fileIdx, pc>>
    /\ UNCHANGED <<envVars, written, params, optState, grads, data, n_samples,
                   passVars, excAt>>

\* ---------------------------------------------------------------- predict
\* A mutated forward pass that takes an optimizer step.
ForwardAndStep ==
    /\ params' = [g \in ParamGroups |-> [params[g] EXCEPT !.upd = @ + 1]]
    /\ optState' = optState + 1
    /\ grads' = grads

\* self.model(...) inside `with torch.no_grad()`: no gradient is tracked and
\* nothing of the model or the optimizer is written.
NoGradForward ==
    /\ params' = params
    /\ optState' = optState
    /\ grads' = grads

\* The records the except handler appends: one per sentence of
\* sentence_batch, with no entity.
EmptyRecords(sb) == [k \in 1..Len(sb) |-> [sentence |-> sb[k].sentence, entity |-> 0]]

\* predict(): self.model.eval() and the locals before the loop.
PredictEnter ==
    /\ mode = "main" /\ mainPc = "predict" /\ pc = "idle"
    /\ pc' = "p_for"
    /\ i' = 0
    /\ batchNo' = 0
    /\ data_batch' = NoBatch
    /\ sentence_batch' = <<>>
    /\ recJ' = 0
    /\ result' = <<>>
    /\ total_ent' = ZeroEnt
    /\ label_result' = <<>>
    /\ pred_result' = <<>>
    /\ raised' = {}
    /\ okSum' = ZeroEnt
    /\ UNCHANGED <<envVars, mainPc, fileIdx, written, params, optState, grads,
                   data, n_samples, loss_list, steps, excAt>>

\* for data_batch in data_loader: ... sentence_batch = data[i:i+batch_size]
PredictFor ==
    /\ pc = "p_for"
    /\ IF batchNo < NumBatches(n_samples, batch_size)
       THEN \E db \in DecodeOutcomes(BatchLen(n_samples, batch_size, batchNo + 1)) :
               /\ batchNo' = batchNo + 1
               /\ data_batch' = db
               /\ sentence_batch' = Slice(data, i, i + batch_size)
               /\ recJ' = 0
               /\ pc' = "p_model"
       ELSE /\ pc' = "p_cat"
            /\ UNCHANGED <<batchNo, data_batch, sentence_batch, recJ>>
    /\ UNCHANGED <<envVars, mainPc, fileIdx, written, params, optState, grads,
                   data, n_samples, i, result, total_ent, label_result,
                   pred_result, loss_list, steps, raised, okSum, excAt>>

\* outputs = self.model(...): returns, or raises into the except handler.
PredictModel ==
    /\ pc = "p_model"
    /\ NoGradForward
    /\ \E ok \in BOOLEAN : pc' = IF ok THEN "p_decode" ELSE "p_except"
    /\ UNCHANGED <<envVars, mainPc, fileIdx, written, data, n_samples, passVars,
                   excAt>>

\* utils.decode(...): returns, or raises into the except handler.
PredictDecode ==
    /\ pc = "p_decode"
    /\ \E ok \in BOOLEAN : pc' = IF ok THEN "p_records" ELSE "p_except"
    /\ UNCHANGED <<envVars, mainPc, fileIdx, written, params, optState, grads,
                   data, n_samples, passVars, excAt>>

\* for ent_list, sentence in zip(decode_entities, sentence_batch): build the
\* record and append it. Building the entity dicts (sentence[x],
\* id_to_label) can raise when the sentence has a decoded entity.
PredictRecord ==
    /\ pc = "p_records"
    /\ IF recJ < Min(Len(data_batch.ents), Len(sentence_batch))
       THEN \/ /\ result' = Append(result,
                       [sentence |-> sentence_batch[recJ + 1].sentence,
                        entity |-> data_batch.ents[recJ + 1]])
               /\ recJ' = recJ + 1
               /\ pc' = "p_records"
            \/ /\ data_batch.ents[recJ + 1] > 0
               /\ pc' = "p_except"
               /\ UNCHANGED <<result, recJ>>
       ELSE /\ pc' = "p_totals"
            /\ UNCHANGED <<result, recJ>>
    /\ UNCHANGED <<envVars, mainPc, fileIdx, written, params, optState, grads,
                   data, n_samples, i, batchNo, data_batch, sentence_batch,
                   total_ent, label_result, pred_result, loss_list, steps,
                   raised, okSum, excAt>>

\* total_ent_r += ent_r; total_ent_p += ent_p; total_ent_c += ent_c
PredictTotals ==
    /\ pc = "p_totals"
    /\ total_ent' = AddEnt(total_ent, EntOf(data_batch))
    /\ pc' = "p_gather"
    /\ UNCHANGED <<envVars, mainPc, fileIdx, written, params, optState, grads,
                   data, n_samples, i, batchNo, data_batch, sentence_batch, recJ,
                   result, label_result, pred_result, loss_list, steps, raised,
                   okSum, excAt>>

\* The masked gather and the two appends that end the try block, then
\* i += batch_size. The gather can raise before anything is appended, and
\* outputs.cpu() can raise after the labels were appended.
PredictGather ==
    /\ pc = "p_gather"
    /\ \E out \in {"ok", "raise_gather", "raise_append"} :
          /\ label_result' = IF out = "raise_gather" THEN label_result
                             ELSE Append(label_result, batchNo)
          /\ pred_result' = IF out = "ok" THEN Append(pred_result, batchNo)
                            ELSE pred_result
          /\ i' = IF out = "ok" THEN i + batch_size ELSE i
          /\ okSum' = IF out = "ok" THEN AddEnt(okSum, EntOf(data_batch)) ELSE okSum
          /\ pc' = IF out = "ok" THEN "p_for" ELSE "p_except"
    /\ UNCHANGED <<envVars, mainPc, fileIdx, written, params, optState, grads,
                   data, n_samples, batchNo, data_batch, sentence_batch, recJ,
                   result, total_ent, loss_list, steps, raised, excAt>>

\* except Exception: log, append an empty record per sentence of
\* sentence_batch, i += batch_size, continue.
PredictExcept ==
    /\ pc = "p_except"
    /\ result' = result \o EmptyRecords(sentence_batch)
    /\ i' = i + batch_size
    /\ raised' = raised \cup {batchNo}
    /\ pc' = "p_for"
    /\ UNCHANGED <<envVars, mainPc, fileIdx, written, params, optState, grads,
                   data, n_samples, batchNo, data_batch, sentence_batch, recJ,
                   total_ent, label_result, pred_result, loss_list, steps,
                   okSum, excAt>>

\* After the loop: torch.cat raises on an empty list, the sklearn metrics
\* raise on label and prediction vectors of different lengths; otherwise the
\* tables are logged, the result is dumped to config.predict_path and e_f1
\* is returned.
PredictFinish ==
    /\ pc = "p_cat"
    /\ IF label_result = <<>> \/ pred_result = <<>>
       THEN /\ pc' = "p_raised"
            /\ excAt' = "torch.cat"
            /\ written' = written
       ELSE IF Len(label_result) # Len(pred_result)
       THEN /\ pc' = "p_raised"
            /\ excAt' = "precision_recall_fscore_support"
            /\ written' = written
       ELSE /\ pc' = "p_returned"
            /\ excAt' = excAt
            /\ written' = written \cup {fileIdx}
    /\ UNCHANGED <<envVars, mainPc, fileIdx, params, optState, grads, data,
                   n_samples, passVars>>

\* ---------------------------------------------------------------- eval
\* eval(): self.model.eval() and the locals before the loop; the loader is
\* the caller's.
EvalEnter ==
    /\ mode = "eval" /\ pc = "idle"
    /\ \E n \in 1..MaxSent : n_samples' = n
    /\ pc' = "e_for"
    /\ batchNo' = 0
    /\ total_ent' = ZeroEnt
    /\ label_result' = <<>>
    /\ pred_result' = <<>>
    /\ raised' = {}
    /\ okSum' = ZeroEnt
    /\ UNCHANGED <<envVars, mainPc, fileIdx, written, params, optState, grads,
                   data, i, data_batch, sentence_batch, recJ, result, loss_list,
                   steps, excAt>>

\* for i, data_batch in enumerate(data_loader)
EvalFor ==
    /\ pc = "e_for"
    /\ IF batchNo < NumBatches(n_samples, batch_size)
       THEN \E db \in DecodeOutcomes(BatchLen(n_samples, batch_size, batchNo + 1)) :
               /\ batchNo' = batchNo + 1
               /\ data_batch' = db
               /\ pc' = "e_batch"
       ELSE /\ pc' = "e_cat"
            /\ UNCHANGED <<batchNo, data_batch>>
    /\ UNCHANGED <<envVars, mainPc, fileIdx, written, params, optState, grads,
                   data, n_samples, i, sentence_batch, recJ, result, total_ent,
                   label_result, pred_result, loss_list, steps, raised, okSum,
                   excAt>>

\* A mutated loop body that catches the exception of a batch, as predict's
\* does, and goes on with the next batch.
EvalBodySkipping(out) ==
    /\ total_ent' = IF out = "ok" THEN AddEnt(total_ent, EntOf(data_batch)) ELSE total_ent
    /\ label_result' = IF out = "ok" THEN Append(label_result, batchNo) ELSE label_result
    /\ pred_result' = IF out = "ok" THEN Append(pred_result, batchNo) ELSE pred_result
    /\ okSum' = IF out = "ok" THEN AddEnt(okSum, EntOf(data_batch)) ELSE okSum
    /\ raised' = IF out = "ok" THEN raised ELSE raised \cup {batchNo}
    /\ pc' = "e_for"
    /\ excAt' = excAt

\* The body of eval's loop: model invocation, decode, totals, the two
\* appends. There is no try block: an exception of the model or of decode
\* leaves eval.
EvalBody(out) ==
    IF out = "ok"
    THEN /\ total_ent' = AddEnt(total_ent, EntOf(data_batch))
         /\ label_result' = Append(label_result, batchNo)
         /\ pred_result' = Append(pred_result, batchNo)
         /\ okSum' = AddEnt(okSum, EntOf(data_batch))
         /\ raised' = raised
         /\ pc' = "e_for"
         /\ excAt' = excAt
    ELSE /\ raised' = raised \cup {batchNo}
         /\ pc' = "e_raised"
         /\ excAt' = out
         /\ UNCHANGED <<total_ent, label_result, pred_result, okSum>>

EvalBatch ==
    /\ pc = "e_batch"
    /\ NoGradForward
    /\ \E out \in {"ok", "model", "decode"} : EvalBody(out)
    /\ UNCHANGED <<envVars, mainPc, fileIdx, written, data, n_samples, i,
                   batchNo, data_batch, sentence_batch, recJ, result, loss_list,
                   steps>>

\* After the loop: torch.cat raises on an empty list; otherwise the metrics
\* are computed and logged and e_f1 is returned.
EvalFinish ==
    /\ pc = "e_cat"
    /\ IF label_result = <<>> \/ pred_result = <<>>
       THEN /\ pc' = "e_raised"
            /\ excAt' = "torch.cat"
       ELSE /\ pc' = "e_returned"
            /\ excAt' = excAt
    /\ UNCHANGED <<envVars, mainPc, fileIdx, written, params, optState, grads,
                   data, n_samples, passVars>>

\* ---------------------------------------------------------------- train
TrainSteps == <<"loss", "backward", "clip", "step", "zero_grad", "accumulate">>

\* train(): self.model.train() and the locals before the loop; the loader is
\* the caller's.
TrainEnter ==
    /\ mode = "train" /\ pc = "idle"
    /\ \E n \in 1..MaxSent :
          /\ n_samples' = n
          /\ steps' = [b \in 1..NumBatches(n, batch_size) |-> <<>>]
    /\ pc' = "t_for"
    /\ batchNo' = 0
    /\ loss_list' = 0
    /\ label_result' = <<>>
    /\ pred_result' = <<>>
    /\ raised' = {}
    /\ UNCHANGED <<envVars, mainPc, fileIdx, written, params, optState, grads,
                   data, i, data_batch, sentence_batch, recJ, result, total_ent,
                   okSum, excAt>>

\* for data_batch in tqdm(data_loader)
TrainFor ==
    /\ pc = "t_for"
    /\ IF batchNo < NumBatches(n_samples, batch_size)
       THEN /\ batchNo' = batchNo + 1
            /\ pc' = "t_model"
       ELSE /\ batchNo' = batchNo
            /\ pc' = "t_cat"
    /\ UNCHANGED <<envVars, mainPc, fileIdx, written, params, optState, grads,
                   data, n_samples, i, data_batch, sentence_batch, recJ, result,
                   total_ent, label_result, pred_result, loss_list, steps,
                   raised, okSum, excAt>>

\* try: outputs = self.model(...)  except: log; continue
TrainModel ==
    /\ pc = "t_model"
    /\ \E ok \in BOOLEAN :
          /\ pc' = IF ok THEN "t_loss" ELSE "t_for"
          /\ raised' = IF ok THEN raised ELSE raised \cup {batchNo}
    /\ UNCHANGED <<envVars, mainPc, fileIdx, written, params, optState, grads,
                   data, n_samples, i, batchNo, data_batch, sentence_batch, recJ,
                   result, total_ent, label_result, pred_result, loss_list,
                   steps, okSum, excAt>>

Logged(name) == [steps EXCEPT ![batchNo] = Append(@, name)]

\* loss = self.criterion(outputs[grid_mask2d], grid_labels[grid_mask2d])
TrainLoss ==
    /\ pc = "t_loss"
    /\ steps' = Logged("loss")
    /\ pc' = "t_backward"
    /\ UNCHANGED <<envVars, mainPc, fileIdx, written, params, optState, grads,
                   data, n_samples, i, batchNo, data_batch, sentence_batch, recJ,
                   result, total_ent, label_result, pred_result, loss_list,
                   raised, okSum, excAt>>

\* loss.backward()
TrainBackward ==
    /\ pc = "t_backward"
    /\ grads' = "accumulated"
    /\ steps' = Logged("backward")
    /\ pc' = "t_clip"
    /\ UNCHANGED <<envVars, mainPc, fileIdx, written, params, optState, data,
                   n_samples, i, batchNo, data_batch, sentence_batch, recJ,
                   result, total_ent, label_result, pred_result, loss_list,
                   raised, okSum, excAt>>

\* torch.nn.utils.clip_grad_norm_(self.model.parameters(), config.clip_grad_norm)
TrainClip ==
    /\ pc = "t_clip"
    /\ grads' = "clipped"
    /\ steps' = Logged("clip")
    /\ pc' = "t_step"
    /\ UNCHANGED <<envVars, mainPc, fileIdx, written, params, optState, data,
                   n_samples, i, batchNo, data_batch, sentence_batch, recJ,
                   result, total_ent, label_result, pred_result, loss_list,
                   raised, okSum, excAt>>

\* self.optimizer.step()
TrainOptStep ==
    /\ pc = "t_step"
    /\ params' = [g \in ParamGroups |-> [params[g] EXCEPT !.upd = @ + 1]]
    /\ optState' = optState + 1
    /\ steps' = Logged("step")
    /\ pc' = "t_zero"
    /\ UNCHANGED <<envVars, mainPc, fileIdx, written, grads, data, n_samples, i,
                   batchNo, data_batch, sentence_batch, recJ, result, total_ent,
                   label_result, pred_result, loss_list, raised, okSum, excAt>>

\* self.optimizer.zero_grad()
TrainZeroGrad ==
    /\ pc = "t_zero"
    /\ grads' = "none"
    /\ steps' = Logged("zero_grad")
    /\ pc' = "t_accum"
    /\ UNCHANGED <<envVars, mainPc, fileIdx, written, params, optState, data,
                   n_samples, i, batchNo, data_batch, sentence_batch, recJ,
                   result, total_ent, label_result, pred_result, loss_list,
                   raised, okSum, excAt>>

\* loss_list.append(...); label_result.append(...); pred_result.append(...)
TrainAccumulate ==
    /\ pc = "t_accum"
    /\ loss_list' = loss_list + 1
    /\ label_result' = Append(label_result, batchNo)
    /\ pred_result' = Append(pred_result, batchNo)
    /\ steps' = Logged("accumulate")
    /\ pc' = "t_sched"
    /\ UNCHANGED <<envVars, mainPc, fileIdx, written, params, optState, grads,
                   data, n_samples, i, batchNo, data_batch, sentence_batch, recJ,
                   result, total_ent, raised, okSum, excAt>>

\* self.scheduler.step(): the attribute lookup raises AttributeError when
\* the Trainer has no scheduler, outside any try block.
TrainScheduler ==
    /\ pc = "t_sched"
    /\ IF "scheduler" \in TrainerAttrs
       THEN /\ pc' = "t_for"
            /\ excAt' = excAt
       ELSE /\ pc' = "t_raised"
            /\ excAt' = "self.scheduler"
    /\ UNCHANGED <<envVars, mainPc, fileIdx, written, params, optState, grads,
                   data, n_samples, passVars>>

\* After the loop: torch.cat raises on an empty list; otherwise the metrics
\* are computed and logged and f1 is returned.
TrainFinish ==
    /\ pc = "t_cat"
    /\ IF label_result = <<>> \/ pred_result = <<>>
       THEN /\ pc' = "t_raised"
            /\ excAt' = "torch.cat"
       ELSE /\ pc' = "t_returned"
            /\ excAt' = excAt
    /\ UNCHANGED <<envVars, mainPc, fileIdx, written, params, optState, grads,
                   data, n_samples, passVars>>

\* ---------------------------------------------------------------- grid codec
\* Label ids of the grid: 0 is "no relation", 1 the continuation label, the
\* entity types follow.
NoLabel == 0

Continuation == 1

TypeIds == 2..(NumTypes + 1)

Tokens(L) == 0..(L - 1)

Largest(S) == CHOOSE x \in S : \A y \in S : y <= x

Smallest(S) == CHOOSE x \in S : \A y \in S : x <= y

\* a and b are consecutive tokens of the span, walked in order.
Consecutive(sp, a, b) ==
    /\ a \in sp.toks /\ b \in sp.toks /\ a < b
    /\ \A x \in sp.toks : ~(a < x /\ x < b)

\* The span's last token, linked back to its first.
Closes(sp, a, b) == a = Largest(sp.toks) /\ b = Smallest(sp.toks)

\* A mutated encode that chains every token between the first and the last
\* of a span, whether or not it belongs to the span.
EncodeFilled(L, S) ==
    [cell \in Tokens(L) \X Tokens(L) |->
        IF \E sp \in S : /\ cell[2] = cell[1] + 1
                         /\ Smallest(sp.toks) <= cell[1]
                         /\ cell[2] <= Largest(sp.toks)
        THEN Continuation
        ELSE IF \E sp \in S : Closes(sp, cell[1], cell[2])
        THEN (CHOOSE sp \in S : Closes(sp, cell[1], cell[2])).type
        ELSE NoLabel]

\* encode(sentence, spans): a continuation mark between consecutive tokens
\* of each span, and the span's type on the cell (last token, first token).
Encode(L, S) ==
    [cell \in Tokens(L) \X Tokens(L) |->
        IF \E sp \in S : Consecutive(sp, cell[1], cell[2])
        THEN Continuation
        ELSE IF \E sp \in S : Closes(sp, cell[1], cell[2])
        THEN (CHOOSE sp \in S : Closes(sp, cell[1], cell[2])).type
        ELSE NoLabel]

SeqRange(q) == { q[k] : k \in 1..Len(q) }

\* decode, steps 1 and 2: the simple paths of the continuation graph that
\* extend `path`, `path` included; a node is never revisited within a path.
RECURSIVE PathsFrom(_, _, _)
PathsFrom(g, L, path) ==
    {path} \cup
    UNION { PathsFrom(g, L, Append(path, b)) :
              b \in { x \in Tokens(L) : /\ g[<<path[Len(path)], x>>] = Continuation
                                        /\ x \notin SeqRange(path) } }

\* Tokens with no incoming continuation edge.
Starts(g, L) ==
    { a \in Tokens(L) : \A x \in Tokens(L) : g[<<x, a>>] # Continuation }

\* decode, step 3: the paths closed by a type label on (last, first).
Candidates(g, L) ==
    { [toks |-> SeqRange(q), type |-> g[<<q[Len(q)], q[1]>>]] :
        q \in { q \in UNION { PathsFrom(g, L, <<a>>) : a \in Starts(g, L) } :
                  g[<<q[Len(q)], q[1]>>] \in TypeIds } }

\* decode, step 4: one entity per token-index set.
Decode(g, L) ==
    LET c == Candidates(g, L)
    IN { e \in c : \A f \in c : f.toks = e.toks => e.type <= f.type }

\* The span sets of a sentence of length L in which no two spans share a
\* token: an assignment of tokens to spans, and a type per span.
SpanSet(L, f, t) ==
    { [toks |-> { x \in Tokens(L) : f[x] = k }, type |-> t[k]] :
        k \in { k \in 1..MaxSpans : \E x \in Tokens(L) : f[x] = k } }

InitCodec ==
    /\ mode = "codec"
    /\ batch_size = 1
    /\ ckpt = "absent"
    /\ mainPc = "n/a"
    /\ fileIdx = 0
    /\ written = {}
    /\ params = FreshParams
    /\ optState = 0
    /\ grads = "none"
    /\ data = <<>>
    /\ n_samples = 0
    /\ pc = "idle"
    /\ i = 0
    /\ batchNo = 0
    /\ data_batch = NoBatch
    /\ sentence_batch = <<>>
    /\ recJ = 0
    /\ result = <<>>
    /\ total_ent = ZeroEnt
    /\ label_result = <<>>
    /\ pred_result = <<>>
    /\ loss_list = 0
    /\ steps = <<>>
    /\ raised = {}
    /\ okSum = ZeroEnt
    /\ excAt = "none"
    /\ codecPc = "input"
    /\ \E L \in 1..MaxLen :
          /\ sentLen = L
          /\ \E f \in [Tokens(L) -> 0..MaxSpans], t \in [1..MaxSpans -> TypeIds] :
                spans = SpanSet(L, f, t)
    /\ grid = <<>>
    /\ decoded = {}

mainVars == <<mode, batch_size, ckpt, mainPc, fileIdx, written, params, optState,
              grads, data, n_samples, pc, passVars, excAt>>

CodecEncode ==
    /\ codecPc = "input"
    /\ grid' = Encode(sentLen, spans)
    /\ codecPc' = "encoded"
    /\ UNCHANGED <<mainVars, sentLen, spans, decoded>>

CodecDecode ==
    /\ codecPc = "encoded"
    /\ decoded' = Decode(grid, sentLen)
    /\ codecPc' = "decoded"
    /\ UNCHANGED <<mainVars, sentLen, spans, grid>>

NextCodec ==
    \/ CodecEncode
    \/ CodecDecode

SpecCodec == InitCodec /\ [][NextCodec]_vars

Next ==
    \/ MainFor
    \/ MainBuild
    \/ MainLoad
    \/ MainAfterPredict
    \/ PredictEnter
    \/ PredictFor
    \/ PredictModel
    \/ PredictDecode
    \/ PredictRecord
    \/ PredictTotals
    \/ PredictGather
    \/ PredictExcept
    \/ PredictFinish
    \/ EvalEnter
    \/ EvalFor
    \/ EvalBatch
    \/ EvalFinish
    \/ TrainEnter
    \/ TrainFor
    \/ TrainModel
    \/ TrainLoss
    \/ TrainBackward
    \/ TrainClip
    \/ TrainOptStep
    \/ TrainZeroGrad
    \/ TrainAccumulate
    \/ TrainScheduler
    \/ TrainFinish

Spec == Init /\ [][Next]_vars

\* ---------------------------------------------------------------- properties
PredictRunning ==
    {"p_for", "p_model", "p_decode", "p_records", "p_totals", "p_gather",
     "p_except", "p_cat"}

EvalRunning == {"e_for", "e_batch", "e_cat"}

\* Predict is between two batches, or past its loop.
PredictAtBoundary == pc \in {"p_for", "p_cat", "p_returned", "p_raised"}

\* Sentence ids (positions in data) of batch b.
SentencesOf(b) == { k \in 1..Len(data) : BatchOf(k, batch_size) = b }

RecordsOf(k) == { j \in 1..Len(result) : result[j].sentence = k }

\* C1: once the batch loop of a Predict pass over N sentences is over, the
\* result holds exactly N records and record k carries the sentence of
\* input k, whichever batches raised and wherever in the try block.
C1_ResultLinesUpWithInput ==
    pc \in {"p_cat", "p_returned", "p_raised"} =>
        /\ Len(result) = Len(data)
        /\ \A k \in 1..Len(data) : result[k].sentence = data[k].sentence

\* C2: a Predict pass always ends by returning with its output file
\* written; no exception leaves the pass after the batch loop.
C2_PredictReturnsAndWrites ==
    pc \in {"p_returned", "p_raised"} => (pc = "p_returned" /\ fileIdx \in written)

\* C3: between batches and after the loop, every sentence of a batch that
\* raised has exactly one record in the result, and that record has no
\* entity.
C3_FailedBatchOneEmptyRecord ==
    PredictAtBoundary =>
        \A b \in raised : \A k \in SentencesOf(b) :
            /\ Cardinality(RecordsOf(k)) = 1
            /\ \A j \in RecordsOf(k) : result[j].entity = 0

\* C4: a Train pass never ends with an exception: whichever batches raise
\* in the model invocation, it visits every batch of the loader and
\* returns.
C4_TrainVisitsAllAndReturns ==
    pc \in {"t_returned", "t_raised"} =>
        (pc = "t_returned" /\ batchNo = NumBatches(n_samples, batch_size))

\* C5 (as claimed): an Eval batch whose model invocation or decode raises
\* is skipped and the pass goes on; the exception does not end the pass.
C5_EvalSkipsRaisingBatch ==
    mode = "eval" => ~(pc = "e_raised" /\ excAt \in {"model", "decode"})

\* C5 (amended): Eval has no per-batch handler. Once a batch raises, the
\* pass has ended with that exception at that batch: it is the only batch
\* that raised, no later batch is delivered, and the totals and the
\* accumulated lists hold the earlier batches only.
C5_EvalAbortsOnRaisingBatch ==
    (mode = "eval" /\ raised # {}) =>
        /\ pc = "e_raised"
        /\ excAt \in {"model", "decode"}
        /\ raised = {batchNo}
        /\ label_result = [b \in 1..(batchNo - 1) |-> b]
        /\ pred_result = label_result
        /\ total_ent = okSum

C5_Witness ==
    /\ mode = "eval" /\ pc = "e_raised" /\ excAt = "decode"
    /\ batchNo = 1
    /\ batchNo < NumBatches(n_samples, batch_size)

\* C6: in the main run, with the checkpoint absent the load raises and the
\* run is over: no Predict pass is started and no prediction file is
\* written; a Predict pass runs only on parameters that all come from the
\* checkpoint.
C6_NoPredictWithoutCheckpoint ==
    mode = "main" =>
        /\ ckpt = "absent" =>
              /\ pc = "idle"
              /\ written = {}
              /\ mainPc \in {"for", "build", "load", "aborted"}
        /\ (mainPc = "predict" \/ pc # "idle") =>
              /\ ckpt = "present"
              /\ \A g \in ParamGroups : params[g].src = "ckpt"

C6_Witness ==
    /\ mode = "main" /\ ckpt = "absent"
    /\ mainPc = "aborted" /\ excAt = "load"
    /\ pc = "idle" /\ written = {}

\* C7: for every sentence and every span set whose spans share no token,
\* decoding the encoded grid returns exactly the original spans.
C7_RoundTrip ==
    codecPc = "decoded" => decoded = spans

C7_Witness ==
    /\ codecPc = "decoded"
    /\ Cardinality(spans) >= 2
    /\ \E sp \in spans :
          \E x \in Tokens(sentLen) :
              /\ x \notin sp.toks
              /\ Smallest(sp.toks) < x /\ x < Largest(sp.toks)
    /\ decoded = spans

\* C8: every step of an Eval or Predict pass, its first and its last
\* included, leaves the parameters and the optimizer state as they were;
\* Train's optimizer step changes both.
C8_EvalPredictLeaveModelAlone ==
    [][ /\ ( \/ pc \in PredictRunning \cup EvalRunning
             \/ (pc = "idle" /\ pc' \in {"p_for", "e_for"}) )
           => (params' = params /\ optState' = optState)
        /\ (pc = "t_step" /\ pc' # pc)
           => (params' # params /\ optState' # optState) ]_vars

C8_Witness ==
    /\ pc = "p_returned"
    /\ raised # {}
    /\ Len(pred_result) >= 1
    /\ params = CkptParams /\ optState = 0

\* C9: in Train, every batch whose model invocation succeeded got the six
\* steps once each in order, a skipped batch got none, the optimizer
\* stepped once per batch that succeeded, and after the steps of a batch
\* the loop goes on to the next batch.
C9_TrainStepsThenNextBatch ==
    (mode = "train" /\ pc \in {"t_for", "t_cat", "t_returned", "t_raised"}) =>
        /\ \A b \in 1..batchNo :
              steps[b] = IF b \in raised THEN <<>> ELSE TrainSteps
        /\ optState = batchNo - Cardinality(raised)
        /\ excAt # "self.scheduler"

\* C10: between batches and after the loop of a Predict pass, the entity
\* totals are the sums of the decode counts over the batches that ended
\* without raising, and every record that carries a decoded entity belongs
\* to a batch that did not raise.
C10_TotalsAndEntitiesFromCleanBatches ==
    PredictAtBoundary =>
        /\ total_ent = okSum
        /\ \A j \in 1..Len(result) :
              result[j].entity > 0 => BatchOf(result[j].sentence, batch_size) \notin raised

====
